---- MODULE Spec2Model ----
(***************************************************************************)
(* A model of the cogmods training engine: the divergent autoencoder of    *)
(* diva.py (plain gradient descent, one decoder channel per category) and  *)
(* the multilayer classifier of mlc_momentum.py (gradient descent with     *)
(* momentum, one "output" connection).                                     *)
(*                                                                         *)
(* Numbers.  The arrays of the program hold floats.  Here a tensor entry   *)
(* is an integer counting units of 1/Scale (fixed point): the value 1.0 is *)
(* Scale, a product of two entries is rounded down to the grid (FMul).     *)
(* Sums, differences and products by an integer are exact.  The response   *)
(* scores, which the program only compares, are kept as exact fractions    *)
(* <<numerator, denominator>>.                                             *)
(*                                                                         *)
(* A 2-d array is a sequence of rows, each a sequence of entries.          *)
(***************************************************************************)
EXTENDS Integers, Sequences, FiniteSets, TLC

\* ------------------------------------------------------------ bounds
\* fixed-point resolution: entries are multiples of 1/Scale
Scale == 100
\* the longest training set a run is given (a prefix of the demo rows)
MaxExamples == 2
\* the largest training_epochs a run is given
MaxEpochs == 2
\* hidden layer width handed to build_params
num_hidden_nodes == 2
\* the number of generator seeds build_params is tried with
NumSeeds == 2

\* ------------------------------------------------------------ numbers
One == Scale

\* x * y for two fixed-point entries
FMul(x, y) == (x * y) \div Scale

\* a decimal literal n/100 of the source on the grid
Dec(n) == (n * Scale) \div 100

RECURSIVE SumTo(_, _)
\* f[1] + ... + f[n]
SumTo(f, n) == IF n = 0 THEN 0 ELSE f[n] + SumTo(f, n - 1)

\* ------------------------------------------------------------ arrays
RECURSIVE Tabulate(_, _)
\* the sequence <<Op(1), ..., Op(n)>>
Tabulate(Op(_), n) == IF n = 0 THEN << >> ELSE Append(Tabulate(Op, n - 1), Op(n))

\* the rows x cols array whose entry (r, c) is Op(r, c)
Array(Op(_, _), rows, cols) ==
    Tabulate(LAMBDA r : Tabulate(LAMBDA c : Op(r, c), cols), rows)

\* Op(A), Op(A, B): the array arguments are evaluated once, to arrays, and
\* then handed to Op (an operator argument is otherwise evaluated anew at
\* each of its uses)
OnArray(Op(_), A) == CHOOSE y \in {Op(a) : a \in {A}} : TRUE
OnArrays(Op(_, _), A, B) == CHOOSE y \in {Op(a, b) : a \in {A}, b \in {B}} : TRUE

\* Op(v) with v evaluated once: "let v be this value in Op"
Let(v, Op(_)) == OnArray(Op, v)

NRows(M) == Len(M)
NCols(M) == IF Len(M) = 0 THEN 0 ELSE Len(M[1])
Shape(M) == <<NRows(M), NCols(M)>>

\* the array of Op(M[r][c])
Map(Op(_), M) ==
    OnArray(LAMBDA m : Array(LAMBDA r, c : Op(m[r][c]), NRows(m), NCols(m)), M)

\* the array of Op(A[r][c], B[r][c]), equal shapes
Map2(Op(_, _), A, B) ==
    OnArrays(LAMBDA a, b : Array(LAMBDA r, c : Op(a[r][c], b[r][c]), NRows(a), NCols(a)), A, B)

\* np.matmul(A, B)
MatMul(A, B) ==
    OnArrays(LAMBDA a, b :
                 Array(LAMBDA r, c : SumTo([k \in 1..NRows(b) |-> FMul(a[r][k], b[k][c])], NRows(b)),
                       NRows(a), NCols(b)),
             A, B)

\* M.T
Transpose(M) == OnArray(LAMBDA m : Array(LAMBDA c, r : m[r][c], NCols(m), NRows(m)), M)

\* np.add(M, b) with the 1-row bias b broadcast over the rows of M
AddBias(M, b) ==
    OnArrays(LAMBDA m, v : Array(LAMBDA r, c : m[r][c] + v[1][c], NRows(m), NCols(m)), M, b)

\* np.subtract(A, B), equal shapes
MSub(A, B) == Map2(LAMBDA x, y : x - y, A, B)

\* np.add(A, B), equal shapes
MAdd(A, B) == Map2(LAMBDA x, y : x + y, A, B)

\* np.multiply(A, B), equal shapes
Hadamard(A, B) == Map2(FMul, A, B)

\* s * M for a fixed-point scalar s
ScalarMul(s, M) == Map(LAMBDA x : FMul(s, x), M)

\* M.sum(axis = 0, keepdims = True)
ColSum(M) ==
    OnArray(LAMBDA m : Array(LAMBDA one, c : SumTo([r \in 1..NRows(m) |-> m[r][c]], NRows(m)),
                             1, NCols(m)),
            M)

\* X[i:i+1, :] for a 0-based i: one row, or no row past the end
RowSlice(X, i) == IF i + 1 <= Len(X) THEN << X[i + 1] >> ELSE << >>

\* an r x c array filled with v
Full(rows, cols, v) == Array(LAMBDA r, c : v, rows, cols)

\* ------------------------------------------------------------ activations
\* the (function, derivative) callables a caller puts in hps
ActivationNames == {"linear", "relu"}

\* np.max(x): the largest entry of the whole array
ArrayMax(M) ==
    LET entries == {M[r][c] : r \in 1..NRows(M), c \in 1..NCols(M)}
    IN  CHOOSE v \in entries : \A w \in entries : w <= v

\* np.exp(x) for x <= 0, on the grid: 1 / (1 - x + x^2 / 2), and never
\* rounded down to 0, exp being positive
Exp(x) ==
    LET e == (Scale * Scale) \div (Scale - x + (x * x) \div (2 * Scale))
    IN  IF e < 1 THEN 1 ELSE e

\* softmax(x), its first statement: x -= np.max(x) writes the shifted values
\* into the caller's array; this is x after the call
softmax_leaves(x) == OnArray(LAMBDA m : Map(LAMBDA v : v - ArrayMax(m), m), x)

\* softmax(x), the returned value: (np.exp(x).T / np.sum(np.exp(x), axis=1)).T
\* of the shifted x
softmax(x) ==
    OnArray(LAMBDA ex :
                Array(LAMBDA r, c : (ex[r][c] * Scale) \div SumTo(ex[r], NCols(ex)),
                      NRows(ex), NCols(ex)),
            Map(Exp, softmax_leaves(x)))

\* relu = lambda x: x * (x > 0);  linear = lambda x: x;  softmax
Activation(name, M) ==
    IF name = "softmax"
    THEN softmax(M)
    ELSE Map(LAMBDA x : IF name = "relu" THEN (IF x > 0 THEN x ELSE 0) ELSE x, M)

\* the argument array of an activation after the call: softmax has written to
\* it, the lambdas have not
ActivationLeaves(name, M) == IF name = "softmax" THEN softmax_leaves(M) ELSE M

\* relu_deriv = lambda x: 1 * (x > 0);  linear: lambda x: 1
ActivationDeriv(name, M) ==
    Map(LAMBDA x : IF name = "relu_deriv" THEN (IF x > 0 THEN One ELSE 0) ELSE One, M)

\* ------------------------------------------------------------ autoencoder (diva.py)
\* forward(params, inputs, channel, hps):
\* <<hidden_act_raw, hidden_act, output_act_raw, output_act>>, the arrays the
\* returned list holds (an activation that writes to its argument has
\* written to the raw array)
forward(params, inputs, channel, hps) ==
    Let(AddBias(MatMul(inputs, params["input"]["hidden"].weights),
                params["input"]["hidden"].bias),
        LAMBDA hidden_act_raw :
    Let(Activation(hps["hidden_activation"], hidden_act_raw),
        LAMBDA hidden_act :
    Let(AddBias(MatMul(hidden_act, params["hidden"][channel].weights),
                params["hidden"][channel].bias),
        LAMBDA output_act_raw :
    Let(Activation(hps["output_activation"], output_act_raw),
        LAMBDA output_act :
    <<ActivationLeaves(hps["hidden_activation"], hidden_act_raw), hidden_act,
      ActivationLeaves(hps["output_activation"], output_act_raw), output_act>> ))))

\* the lookups of forward that raise KeyError: a missing activation entry of
\* hps, a channel that params["hidden"] does not hold
forward_raises(params, channel, hps) ==
    \/ "hidden_activation" \notin DOMAIN hps
    \/ channel \notin DOMAIN params["hidden"]
    \/ "output_activation" \notin DOMAIN hps

\* the row count numpy broadcasts n rows against m rows to; -1: ValueError
BroadcastRows(n, m) ==
    IF n = m THEN n ELSE IF n = 1 THEN m ELSE IF m = 1 THEN n ELSE -1

\* loss_grad raises: forward raises, a derivative entry is missing in hps, or the
\* targets do not fit the batch (output_act - targets fails to broadcast, or
\* broadcasts to a row count np.matmul(hidden_act.T, decode_grad) rejects)
loss_grad_raises(params, inputs, channel, hps, targets) ==
    \/ forward_raises(params, channel, hps)
    \/ "output_activation_deriv" \notin DOMAIN hps
    \/ BroadcastRows(NRows(inputs), NRows(targets)) # NRows(inputs)
    \/ "hidden_activation_deriv" \notin DOMAIN hps

\* loss_grad(params, inputs, channel, hps, targets): backprop of the
\* sum-squared-error cost, for the one channel
loss_grad(params, inputs, channel, hps, targets) ==
    Let(forward(params, inputs, channel, hps),
        LAMBDA fwd :       \* hidden_act_raw, hidden_act, output_act_raw, output_act
    Let(Hadamard(ActivationDeriv(hps["output_activation_deriv"], fwd[3]),
                 Map2(LAMBDA o, t : (2 * (o - t)) \div NRows(inputs), fwd[4], targets)),
        LAMBDA decode_grad :
    Let(Hadamard(ActivationDeriv(hps["hidden_activation_deriv"], fwd[1]),
                 MatMul(decode_grad, Transpose(params["hidden"][channel].weights))),
        LAMBDA encode_grad :
    [input  |-> [c \in {"hidden"} |-> [weights |-> MatMul(Transpose(inputs), encode_grad),
                                       bias    |-> ColSum(encode_grad)]],
     hidden |-> [c \in {channel}  |-> [weights |-> MatMul(Transpose(fwd[2]), decode_grad),
                                       bias    |-> ColSum(decode_grad)]]] )))

\* update_params moving every connection of a layer by the layer's gradient,
\* the channels that were not trained included
update_params_every_channel(params, gradients, lr) ==
    [layer \in DOMAIN params |->
        [connection \in DOMAIN params[layer] |->
            LET g == IF connection \in DOMAIN gradients[layer]
                     THEN gradients[layer][connection]
                     ELSE gradients[layer][CHOOSE c \in DOMAIN gradients[layer] : TRUE]
            IN  [weights |-> MSub(params[layer][connection].weights, ScalarMul(lr, g.weights)),
                 bias    |-> MSub(params[layer][connection].bias, ScalarMul(lr, g.bias))]]]

\* update_params(params, gradients, lr): param -= lr * grad for every
\* connection of the gradient structure
update_params(params, gradients, lr) ==
    [layer \in DOMAIN params |->
        [connection \in DOMAIN params[layer] |->
            IF connection \in DOMAIN gradients[layer]
            THEN [weights |-> MSub(params[layer][connection].weights,
                                   ScalarMul(lr, gradients[layer][connection].weights)),
                  bias    |-> MSub(params[layer][connection].bias,
                                   ScalarMul(lr, gradients[layer][connection].bias))]
            ELSE params[layer][connection]]]

\* ------------------------------------------------------------ parameter builders
\* np.random.uniform(lo, hi) as the k-th draw of a generator seeded with seed:
\* a point of a five-point grid over [lo, hi]
Draw(seed, k, lo, hi) ==
    lo + ((((k * (k + seed + 1) * (2 * k + 1) + 3 * seed) % 11) % 5) * (hi - lo)) \div 4

\* np.random.uniform(lo, hi, [rows, cols]), the generator having made base
\* draws before
Uniform(seed, base, lo, hi, rows, cols) ==
    Array(LAMBDA r, c : Draw(seed, base + (r - 1) * cols + c, lo, hi), rows, cols)

\* the categories of the demo, in np.unique order
Categories == <<"A", "B">>

\* np.sqrt(n / d) on the grid, rounded down
Sqrt(n, d) ==
    LET x == (n * Scale * Scale) \div d
    IN  CHOOSE s \in 0..x : s * s <= x /\ x < (s + 1) * (s + 1)

\* np.random.normal(0, 1, [rows, cols]) * scale: the draws on a five-point
\* grid over [-2, 2]
Normal(seed, base, rows, cols, scale) ==
    Array(LAMBDA r, c : FMul(Draw(seed, base + (r - 1) * cols + c, -2 * One, 2 * One), scale),
          rows, cols)

\* build_params with the input weights laid out [num_hidden_nodes, num_features]
build_params_transposed(seed, nfeatures, nhidden, categories, weight_range) ==
    [input  |-> [c \in {"hidden"} |->
                    [weights |-> Uniform(seed, 0, weight_range[1], weight_range[2], nhidden, nfeatures),
                     bias    |-> Uniform(seed, nfeatures * nhidden,
                                         weight_range[1], weight_range[2], 1, nhidden)]],
     hidden |-> [channel \in {categories[j] : j \in 1..Len(categories)} |->
                    [weights |-> Uniform(seed, 0, weight_range[1], weight_range[2], nhidden, nfeatures),
                     bias    |-> Uniform(seed, 0, weight_range[1], weight_range[2], 1, nfeatures)]]]

\* diva.build_params(num_features, num_hidden_nodes, categories, weight_range):
\* the tensors are drawn one after the other, in the order of the dictionary
build_params(seed, nfeatures, nhidden, categories, weight_range) ==
    [input  |-> [c \in {"hidden"} |->
                    [weights |-> Uniform(seed, 0, weight_range[1], weight_range[2], nfeatures, nhidden),
                     bias    |-> Uniform(seed, nfeatures * nhidden,
                                         weight_range[1], weight_range[2], 1, nhidden)]],
     hidden |-> [channel \in {categories[j] : j \in 1..Len(categories)} |->
                    LET j    == CHOOSE j \in 1..Len(categories) : categories[j] = channel
                        base == (nfeatures + 1) * nhidden + (j - 1) * (nhidden + 1) * nfeatures
                    IN  [weights |-> Uniform(seed, base, weight_range[1], weight_range[2], nhidden, nfeatures),
                         bias    |-> Uniform(seed, base + nhidden * nfeatures,
                                             weight_range[1], weight_range[2], 1, nfeatures)]]]

\* diva.build_params_xavier(num_features, num_hidden_nodes, categories):
\* scaled normal weights, zero biases
build_params_xavier(seed, nfeatures, nhidden, categories) ==
    [input  |-> [c \in {"hidden"} |->
                    [weights |-> Normal(seed, 0, nfeatures, nhidden, Sqrt(2, nfeatures + nhidden)),
                     bias    |-> Full(1, nhidden, 0)]],
     hidden |-> [channel \in {categories[j] : j \in 1..Len(categories)} |->
                    LET j == CHOOSE j \in 1..Len(categories) : categories[j] = channel
                    IN  [weights |-> Normal(seed, j * nfeatures * nhidden, nhidden, nfeatures,
                                            Sqrt(2, nhidden + nfeatures)),
                         bias    |-> Full(1, nfeatures, 0)]]]

\* ------------------------------------------------------------ classifier (mlc_momentum.py)
\* mlc_momentum.forward(params, inputs, hps)
mlc_forward(params, inputs, hps) ==
    Let(AddBias(MatMul(inputs, params["input"]["hidden"].weights),
                params["input"]["hidden"].bias),
        LAMBDA hidden_act_raw :
    Let(Activation(hps["hidden_activation"], hidden_act_raw),
        LAMBDA hidden_act :
    Let(AddBias(MatMul(hidden_act, params["hidden"]["output"].weights),
                params["hidden"]["output"].bias),
        LAMBDA output_act_raw :
    Let(Activation(hps["output_activation"], output_act_raw),
        LAMBDA output_act :
    <<ActivationLeaves(hps["hidden_activation"], hidden_act_raw), hidden_act,
      ActivationLeaves(hps["output_activation"], output_act_raw), output_act>> ))))

\* mlc_momentum.loss_grad raises: a missing activation entry, targets that do
\* not fit the batch
mlc_loss_grad_raises(params, inputs, targets, hps) ==
    \/ "hidden_activation" \notin DOMAIN hps
    \/ "output_activation" \notin DOMAIN hps
    \/ "output_activation_deriv" \notin DOMAIN hps
    \/ BroadcastRows(NRows(inputs), NRows(targets)) # NRows(inputs)
    \/ "hidden_activation_deriv" \notin DOMAIN hps

\* mlc_momentum.loss_grad(params, inputs, targets, hps)
mlc_loss_grad(params, inputs, targets, hps) ==
    Let(mlc_forward(params, inputs, hps),
        LAMBDA fwd :       \* hidden_act_raw, hidden_act, output_act_raw, output_act
    Let(Hadamard(ActivationDeriv(hps["output_activation_deriv"], fwd[3]),
                 Map2(LAMBDA o, t : (2 * (o - t)) \div NRows(inputs), fwd[4], targets)),
        LAMBDA decode_grad :
    Let(Hadamard(ActivationDeriv(hps["hidden_activation_deriv"], fwd[1]),
                 MatMul(decode_grad, Transpose(params["hidden"]["output"].weights))),
        LAMBDA encode_grad :
    [input  |-> [c \in {"hidden"} |-> [weights |-> MatMul(Transpose(inputs), encode_grad),
                                       bias    |-> ColSum(encode_grad)]],
     hidden |-> [c \in {"output"} |-> [weights |-> MatMul(Transpose(fwd[2]), decode_grad),
                                       bias    |-> ColSum(decode_grad)]]] )))

\* mlc_momentum.build_params(num_features, num_hidden_nodes, num_classes, weight_range)
mlc_build_params(seed, nfeatures, nhidden, nclasses, weight_range) ==
    [input  |-> [c \in {"hidden"} |->
                    [weights |-> Uniform(seed, 0, weight_range[1], weight_range[2], nfeatures, nhidden),
                     bias    |-> Uniform(seed, nfeatures * nhidden,
                                         weight_range[1], weight_range[2], 1, nhidden)]],
     hidden |-> [c \in {"output"} |->
                    [weights |-> Uniform(seed, (nfeatures + 1) * nhidden,
                                         weight_range[1], weight_range[2], nhidden, nclasses),
                     bias    |-> Uniform(seed, (nfeatures + 1) * nhidden + nhidden * nclasses,
                                         weight_range[1], weight_range[2], 1, nclasses)]]]

\* mlc_momentum.build_params_xavier(num_features, num_hidden_nodes, num_classes)
mlc_build_params_xavier(seed, nfeatures, nhidden, nclasses) ==
    [input  |-> [c \in {"hidden"} |->
                    [weights |-> Normal(seed, 0, nfeatures, nhidden, Sqrt(2, nfeatures + nhidden)),
                     bias    |-> Full(1, nhidden, 0)]],
     hidden |-> [c \in {"output"} |->
                    [weights |-> Normal(seed, nfeatures * nhidden, nhidden, nclasses,
                                        Sqrt(2, nhidden + nclasses)),
                     bias    |-> Full(1, nclasses, 0)]]]

\* A velocity is the Python value the store holds: the int 0 that fit puts
\* there (ndim 0, the number in a[1][1]) or a 2-d array (ndim 2).
ScalarZero == [ndim |-> 0, a |-> << <<0>> >>]

\* momentum_rate * velocity
VelocityTimes(momentum_rate, v) == [ndim |-> v.ndim, a |-> ScalarMul(momentum_rate, v.a)]

\* G + v for a 2-d array G, a scalar v broadcast over it
PlusVelocity(G, v) ==
    [ndim |-> 2,
     a    |-> IF v.ndim = 0
              THEN Map(LAMBDA x : x + v.a[1][1], G)
              ELSE MAdd(G, v.a)]

\* the velocities fit creates: the int 0 for the weights and the bias of
\* every connection of params
initial_velocities(params) ==
    [layer \in DOMAIN params |->
        [connection \in DOMAIN params[layer] |-> [weights |-> ScalarZero, bias |-> ScalarZero]]]

\* the velocities of an update that forgets the momentum rate:
\* velocity = learning_rate * grad + velocity
momentum_velocities_ignoring_rate(gradients, velocities, learning_rate, momentum_rate) ==
    [layer \in DOMAIN velocities |->
        [connection \in DOMAIN velocities[layer] |->
            [weights |-> PlusVelocity(ScalarMul(learning_rate, gradients[layer][connection].weights),
                                      velocities[layer][connection].weights),
             bias    |-> PlusVelocity(ScalarMul(learning_rate, gradients[layer][connection].bias),
                                      velocities[layer][connection].bias)]]]

\* the velocities update_params leaves:
\* velocity = learning_rate * grad + momentum_rate * velocity
momentum_velocities(gradients, velocities, learning_rate, momentum_rate) ==
    [layer \in DOMAIN velocities |->
        [connection \in DOMAIN velocities[layer] |->
            IF layer \in DOMAIN gradients /\ connection \in DOMAIN gradients[layer]
            THEN [weights |-> PlusVelocity(ScalarMul(learning_rate, gradients[layer][connection].weights),
                                           VelocityTimes(momentum_rate, velocities[layer][connection].weights)),
                  bias    |-> PlusVelocity(ScalarMul(learning_rate, gradients[layer][connection].bias),
                                           VelocityTimes(momentum_rate, velocities[layer][connection].bias))]
            ELSE velocities[layer][connection]]]

\* mlc_momentum.update_params(params, gradients, velocities, learning_rate,
\* momentum_rate): <<params, velocities>>, param -= the new velocity
mlc_update_params(params, gradients, velocities, learning_rate, momentum_rate) ==
    Let(momentum_velocities(gradients, velocities, learning_rate, momentum_rate),
        LAMBDA v :
    << [layer \in DOMAIN params |->
          [connection \in DOMAIN params[layer] |->
              IF layer \in DOMAIN gradients /\ connection \in DOMAIN gradients[layer]
              THEN [weights |-> MSub(params[layer][connection].weights, v[layer][connection].weights.a),
                    bias    |-> MSub(params[layer][connection].bias, v[layer][connection].bias.a)]
              ELSE params[layer][connection]]],
       v >> )

\* ------------------------------------------------------------ response rule
\* A score is an exact fraction <<numerator, denominator>>, denominator > 0,
\* or NaN, what numpy's 0/0 and inf/inf give.
NaN == <<0, 0>>
IsNaN(x) == x[2] = 0
FracLess(x, y) == x[1] * y[2] < y[1] * x[2]
FracAdd(x, y) == <<x[1] * y[2] + y[1] * x[2], x[2] * y[2]>>

RECURSIVE FracSum(_, _)
\* f[1] + ... + f[n] for fractions
FracSum(f, n) == IF n = 0 THEN <<0, 1>> ELSE FracAdd(f[n], FracSum(f, n - 1))

\* np.argmin over a sequence of scores: 0-based, the first NaN when there is
\* one, else the first minimum
ArgMin(scores) ==
    IF \E k \in 1..Len(scores) : IsNaN(scores[k])
    THEN (CHOOSE k \in 1..Len(scores) :
             IsNaN(scores[k]) /\ \A j \in 1..(k - 1) : ~IsNaN(scores[j])) - 1
    ELSE (CHOOSE k \in 1..Len(scores) :
             /\ \A j \in 1..Len(scores) : ~FracLess(scores[j], scores[k])
             /\ \A j \in 1..(k - 1) : FracLess(scores[k], scores[j])) - 1

\* the returned expression without its "1 -": err_k / sum(err)
stable_scores_inverted(channel_errors) ==
    LET total == SumTo(channel_errors, Len(channel_errors))
    IN  Tabulate(LAMBDA k : IF total = 0 THEN NaN ELSE <<channel_errors[k], total>>,
                 Len(channel_errors))

\* diva.response, the returned expression: 1 - err_k / sum(err) for each
\* channel k of one input row
stable_scores(channel_errors) ==
    LET total == SumTo(channel_errors, Len(channel_errors))
    IN  Tabulate(LAMBDA k : IF total = 0 THEN NaN ELSE <<total - channel_errors[k], total>>,
                 Len(channel_errors))

\* diva_batch.response, the returned expression: (1 / err_k) / sum(1 / err)
\* for each channel k of one input row; 1/0 is inf, inf/inf is nan and a
\* finite value over inf is 0
reciprocal_scores(channel_errors) ==
    LET n == Len(channel_errors)
        total == FracSum([k \in 1..n |-> <<1, channel_errors[k]>>], n)
    IN  Tabulate(LAMBDA k : IF \E j \in 1..n : channel_errors[j] = 0
                            THEN (IF channel_errors[k] = 0 THEN NaN ELSE <<0, 1>>)
                            ELSE <<total[2], channel_errors[k] * total[1]>>,
                 n)

\* diva.response, the focusing weights at the default beta = 0:
\* np.exp(beta * diversities) is an array of ones of the inputs' shape, and
\* fweights = diversities / np.sum(diversities)
focus_weights(inputs) ==
    LET diversities == Full(NRows(inputs), NCols(inputs), One)
        total       == NRows(inputs) * NCols(inputs) * One
    IN  Map(LAMBDA x : (x * Scale) \div total, diversities)

\* diva.response up to channel_errors, at the default beta = 0: the error of
\* every channel on every input row, channel axis first
channel_errors_of(params, inputs, channels, hps, targets) ==
    OnArrays(LAMBDA activations, fweights :
                 Array(LAMBDA k, r :
                           SumTo([c \in 1..NCols(inputs) |->
                                     FMul(FMul(targets[r][c] - activations[k][r][c],
                                               targets[r][c] - activations[k][r][c]),
                                          fweights[r][c])],
                                 NCols(inputs)),
                       Len(channels), NRows(inputs)),
             Tabulate(LAMBDA k : forward(params, inputs, channels[k], hps)[4], Len(channels)),
             focus_weights(inputs))

\* diva.response(params, inputs, channels, hps, targets), beta = 0: the score
\* of every channel on every input row, channel axis first
response(params, inputs, channels, hps, targets) ==
    OnArray(LAMBDA errs :
                Array(LAMBDA k, r : stable_scores(Tabulate(LAMBDA j : errs[j][r], Len(channels)))[k],
                      Len(channels), NRows(inputs)),
            channel_errors_of(params, inputs, channels, hps, targets))

\* diva.predict(params, inputs, categories, hps, targets): np.argmin of the
\* response over the channel axis, one 0-based channel index per input row
predict(params, inputs, categories, hps, targets) ==
    OnArray(LAMBDA scores :
                Tabulate(LAMBDA r : ArgMin(Tabulate(LAMBDA k : scores[k][r], Len(categories))),
                         NRows(inputs)),
            response(params, inputs, categories, hps, targets))

\* ------------------------------------------------------------ loss, classifier response
\* the sum of all entries of M
SumAll(M) == SumTo([r \in 1..NRows(M) |-> SumTo(M[r], NCols(M))], NRows(M))

\* diva.loss(params, inputs, channel, hps, targets): the summed squared error
\* over inputs.shape[0]
loss(params, inputs, channel, hps, targets) ==
    SumAll(Map2(LAMBDA o, t : FMul(o - t, o - t),
                forward(params, inputs, channel, hps)[4], targets)) \div NRows(inputs)

\* mlc_momentum.loss(params, inputs, targets, hps)
mlc_loss(params, inputs, targets, hps) ==
    SumAll(Map2(LAMBDA o, t : FMul(o - t, o - t),
                mlc_forward(params, inputs, hps)[4], targets)) \div NRows(inputs)

\* mlc_momentum.response(params, inputs, hps): softmax of forward's output
mlc_response(params, inputs, hps) == softmax(mlc_forward(params, inputs, hps)[4])

\* np.argmax of a row: 0-based, the first maximum
ArgMax(row) ==
    (CHOOSE k \in 1..Len(row) :
        /\ \A j \in 1..Len(row) : row[j] <= row[k]
        /\ \A j \in 1..(k - 1) : row[j] < row[k]) - 1

\* mlc_momentum.predict(params, inputs): np.argmax over axis 1 of forward's
\* output, forward being given the module's global hps
mlc_predict(params, inputs, global_hps) ==
    OnArray(LAMBDA out : Tabulate(LAMBDA r : ArgMax(out[r]), NRows(out)),
            mlc_forward(params, inputs, global_hps)[4])

\* ------------------------------------------------------------ state
VARIABLES
    variant,                 \* "diva" or "mlc": the module whose fit runs
    params,                  \* the caller's parameter structure, mutated in place
    inputs, labels, targets, \* fit's arguments
    hps, training_epochs, randomize_presentation,
    pc,                      \* where fit stands: call, epoch, example, update,
                             \* done (returned), raised, predicted
    presentation_order, e, i, gradients,   \* fit's locals
    velocities,              \* fit's velocity store (mlc)
    predictions,             \* what predict returned (diva)
    params0,                 \* history: params when fit was called
    presented,               \* history: the example indices processed this epoch
    nGradients, nUpdates,    \* history: loss_grad calls, update_params calls
    epochsRun,               \* history: epochs whose example loop ran to its end
    gradFrom,                \* history: the params the latest gradient was computed from
    lastUpdated,             \* history: what the latest update_params returned
    labelsSeen,              \* history: the labels of the examples trained on
    paramsGD,                \* history: params0 moved by the plain update_params
                             \* along the same gradients
    channel_errors, stable, reciprocal,    \* the response rule on its own
    called,                  \* the function a caller calls twice in a row
    returned, returned_again \* what its first and its second call returned

vars == <<variant, params, inputs, labels, targets, hps, training_epochs,
          randomize_presentation, pc, presentation_order, e, i, gradients,
          velocities, predictions, params0, presented, nGradients, nUpdates,
          epochsRun, gradFrom, lastUpdated, labelsSeen, paramsGD,
          channel_errors, stable, reciprocal, called, returned, returned_again>>

fitArgs == <<variant, inputs, labels, targets, hps, training_epochs,
             randomize_presentation, params0>>
scoreVars == <<channel_errors, stable, reciprocal>>
callVars == <<called, returned, returned_again>>

\* ------------------------------------------------------------ callers
\* the demo's inputs (both __main__ blocks), on the grid
DemoInputs ==
    << <<One, One, One>>, <<One, One, 0>>, <<One, 0, One>>, <<One, 0, 0>>,
       <<0, 0, 0>>, <<0, 0, One>>, <<0, One, 0>>, <<0, One, One>> >>

num_features == Len(DemoInputs[1])

\* generator states build_params is tried from
Seeds == 0..(NumSeeds - 1)

\* the labels a caller may pass: the two categories and one that has no channel
LabelChoices == {"A", "B", "C"}

\* (inputs - .5) * 2, the targets diva's demo trains on
DemoTargets(X) == Map(LAMBDA x : 2 * (x - Dec(50)), X)

\* np.eye(len(categories))[labels_indexed], the classifier's one-hot targets
OneHot(lbls) ==
    Array(LAMBDA r, c : IF Categories[c] = lbls[r] THEN One ELSE 0, Len(lbls), Len(Categories))

\* X without its last row: targets one row short of the inputs
DropLast(X) == SubSeq(X, 1, Len(X) - 1)

\* the hyperparameter bundles of the autoencoder's callers; the last lacks a
\* derivative entry
DivaHps ==
    { [learning_rate |-> Dec(5), hidden_activation |-> h, hidden_activation_deriv |-> h \o "_deriv",
       output_activation |-> "linear", output_activation_deriv |-> "linear_deriv"]
      : h \in ActivationNames }
    \cup
    { [learning_rate |-> Dec(5), hidden_activation |-> "relu", hidden_activation_deriv |-> "relu_deriv",
       output_activation |-> "linear"] }

\* the hyperparameter bundles of the classifier's callers
MlcHps ==
    { [learning_rate |-> Dec(5), momentum_rate |-> m,
       hidden_activation |-> h, hidden_activation_deriv |-> h \o "_deriv",
       output_activation |-> "linear", output_activation_deriv |-> "linear_deriv"]
      : h \in ActivationNames, m \in {0, Dec(50)} }

\* targets = None
NoTargets == [none |-> TRUE, array |-> << >>]
Given(X) == [none |-> FALSE, array |-> X]

\* if np.any(targets) == None: targets = inputs
TargetsOrInputs(t, X) == IF t.none THEN X ELSE t.array

NoGradients == << >>
NoVelocities == << >>

\* everything a call of fit starts from, but the arguments
FitFresh ==
    /\ pc = "call"
    /\ presentation_order = << >>
    /\ e = 0
    /\ i = 0
    /\ gradients = NoGradients
    /\ velocities = NoVelocities
    /\ predictions = << >>
    /\ params0 = params
    /\ presented = << >>
    /\ nGradients = 0
    /\ nUpdates = 0
    /\ epochsRun = 0
    /\ gradFrom = params
    /\ lastUpdated = params
    /\ labelsSeen = {}
    /\ paramsGD = params

NoScores ==
    /\ channel_errors = << >>
    /\ stable = << >>
    /\ reciprocal = << >>

NoCalls ==
    /\ called = ""
    /\ returned = << >>
    /\ returned_again = << >>

\* a caller of diva.fit: params from build_params, a prefix of the demo rows,
\* one label per row, no targets, the demo's targets, or targets a row short
InitDiva ==
    /\ variant = "diva"
    /\ \E seed \in Seeds :
          params = build_params(seed, num_features, num_hidden_nodes, Categories, <<-One, One>>)
    /\ \E n \in 0..MaxExamples :
          /\ inputs = SubSeq(DemoInputs, 1, n)
          /\ labels \in [1..n -> LabelChoices]
          /\ targets \in {NoTargets, Given(DemoTargets(inputs)), Given(DropLast(DemoTargets(inputs)))}
    /\ hps \in DivaHps
    /\ training_epochs \in 0..MaxEpochs
    /\ randomize_presentation \in BOOLEAN

\* a caller of mlc_momentum.fit: one-hot targets of the rows' categories, or
\* targets a row short
InitMlc ==
    /\ variant = "mlc"
    /\ \E seed \in Seeds :
          params = mlc_build_params(seed, num_features, num_hidden_nodes, Len(Categories),
                                    <<-Dec(30), Dec(30)>>)
    /\ \E n \in 0..MaxExamples :
          /\ inputs = SubSeq(DemoInputs, 1, n)
          /\ \E lbls \in [1..n -> {"A", "B"}] :
                targets \in {Given(OneHot(lbls)), Given(DropLast(OneHot(lbls)))}
    /\ labels = << >>
    /\ hps \in MlcHps
    /\ training_epochs \in 0..MaxEpochs
    /\ randomize_presentation \in BOOLEAN

Init ==
    /\ InitDiva \/ InitMlc
    /\ FitFresh
    /\ NoScores
    /\ NoCalls

\* ------------------------------------------------------------ fit
\* the rearrangements np.random.shuffle may leave in place of order
Shuffles(order) ==
    { p \in [1..Len(order) -> {order[k] : k \in 1..Len(order)}] :
        \A a, b \in 1..Len(order) : a # b => p[a] # p[b] }

\* the targets fit slices: the caller's, or the inputs when there are none
FitTargets == TargetsOrInputs(targets, inputs)

\* the loss_grad call of the i-th pass of the example loop raises
example_raises ==
    IF variant = "diva"
    THEN loss_grad_raises(params, RowSlice(inputs, i), labels[i + 1], hps, RowSlice(FitTargets, i))
    ELSE mlc_loss_grad_raises(params, RowSlice(inputs, i), RowSlice(FitTargets, i), hps)

\* the gradients of the i-th pass of the example loop, computed from p
example_gradients(p) ==
    IF variant = "diva"
    THEN loss_grad(p, RowSlice(inputs, i), labels[i + 1], hps, RowSlice(FitTargets, i))
    ELSE mlc_loss_grad(p, RowSlice(inputs, i), RowSlice(FitTargets, i), hps)

\* for e in range(training_epochs), with one epoch too many
epoch_loop_runs_once_more == e <= training_epochs

\* for e in range(training_epochs): there is another epoch to run
epoch_loop_runs == e < training_epochs

\* for i in range(inputs.shape[0]), stopping one row early
example_loop_skips_last == i < NRows(inputs) - 1

\* for i in range(inputs.shape[0]): there is another row to train on
example_loop_runs == i < NRows(inputs)

\* the params of a stale gradient: those fit was called with
loss_grad_params_stale == params0

\* the params fit hands to loss_grad: its own, as the latest update left them
loss_grad_params == params

\* fit is entered: presentation_order = np.arange(inputs.shape[0]) and, in the
\* classifier, the velocities
Fit_Call ==
    /\ pc = "call"
    /\ presentation_order' = Tabulate(LAMBDA k : k - 1, NRows(inputs))
    /\ velocities' = IF variant = "mlc" THEN initial_velocities(params) ELSE velocities
    /\ e' = 0
    /\ pc' = "epoch"
    /\ UNCHANGED <<fitArgs, params, i, gradients, predictions, presented, nGradients,
                   nUpdates, epochsRun, gradFrom, lastUpdated, labelsSeen, paramsGD, scoreVars, callVars>>

\* the epoch loop with the velocities created inside it, anew for every epoch
Fit_Epoch_resets_velocities ==
    /\ pc = "epoch"
    /\ IF epoch_loop_runs
       THEN /\ IF randomize_presentation
               THEN presentation_order' \in Shuffles(presentation_order)
               ELSE presentation_order' = presentation_order
            /\ velocities' = IF variant = "mlc" THEN initial_velocities(params) ELSE velocities
            /\ i' = 0
            /\ presented' = << >>
            /\ pc' = "example"
       ELSE /\ pc' = "done"
            /\ UNCHANGED <<presentation_order, i, presented, velocities>>
    /\ UNCHANGED <<fitArgs, params, e, gradients, predictions, nGradients,
                   nUpdates, epochsRun, gradFrom, lastUpdated, labelsSeen, paramsGD, scoreVars, callVars>>

\* for e in range(training_epochs): the next epoch starts, shuffling
\* presentation_order when asked to, or fit returns params
Fit_Epoch ==
    /\ pc = "epoch"
    /\ IF epoch_loop_runs
       THEN /\ IF randomize_presentation
               THEN presentation_order' \in Shuffles(presentation_order)
               ELSE presentation_order' = presentation_order
            /\ i' = 0
            /\ presented' = << >>
            /\ pc' = "example"
       ELSE /\ pc' = "done"
            /\ UNCHANGED <<presentation_order, i, presented>>
    /\ UNCHANGED <<fitArgs, params, e, gradients, velocities, predictions, nGradients,
                   nUpdates, epochsRun, gradFrom, lastUpdated, labelsSeen, paramsGD, scoreVars, callVars>>

\* the example loop with the loss_grad call in a try block that skips the row
\* when it raises
Fit_Example_swallows ==
    /\ pc = "example"
    /\ IF example_loop_runs
       THEN IF example_raises
            THEN /\ i' = i + 1
                 /\ UNCHANGED <<pc, gradients, nGradients, gradFrom, e, epochsRun>>
            ELSE /\ gradients' = example_gradients(loss_grad_params)
                 /\ gradFrom' = loss_grad_params
                 /\ nGradients' = nGradients + 1
                 /\ pc' = "update"
                 /\ UNCHANGED <<e, epochsRun, i>>
       ELSE /\ e' = e + 1
            /\ epochsRun' = epochsRun + 1
            /\ pc' = "epoch"
            /\ UNCHANGED <<gradients, nGradients, gradFrom, i>>
    /\ UNCHANGED <<fitArgs, params, presentation_order, velocities, predictions,
                   presented, nUpdates, lastUpdated, labelsSeen, paramsGD, scoreVars, callVars>>

\* the example loop of a fit that trains a copy and, when loss_grad raises,
\* leaves the caller's params as they were when it was called
Fit_Example_rolls_back ==
    /\ pc = "example"
    /\ IF example_loop_runs
       THEN IF example_raises
            THEN /\ pc' = "raised"
                 /\ params' = params0
                 /\ UNCHANGED <<gradients, nGradients, gradFrom, e, epochsRun>>
            ELSE /\ gradients' = example_gradients(loss_grad_params)
                 /\ gradFrom' = loss_grad_params
                 /\ nGradients' = nGradients + 1
                 /\ pc' = "update"
                 /\ UNCHANGED <<e, epochsRun, params>>
       ELSE /\ e' = e + 1
            /\ epochsRun' = epochsRun + 1
            /\ pc' = "epoch"
            /\ UNCHANGED <<gradients, nGradients, gradFrom, params>>
    /\ UNCHANGED <<fitArgs, presentation_order, i, velocities, predictions,
                   presented, nUpdates, lastUpdated, labelsSeen, paramsGD, scoreVars, callVars>>

\* for i in range(inputs.shape[0]): loss_grad on row i, label i, target i; an
\* exception leaves fit; after the last row the epoch is over
Fit_Example ==
    /\ pc = "example"
    /\ IF example_loop_runs
       THEN IF example_raises
            THEN /\ pc' = "raised"
                 /\ UNCHANGED <<gradients, nGradients, gradFrom, e, epochsRun>>
            ELSE /\ gradients' = example_gradients(loss_grad_params)
                 /\ gradFrom' = loss_grad_params
                 /\ nGradients' = nGradients + 1
                 /\ pc' = "update"
                 /\ UNCHANGED <<e, epochsRun>>
       ELSE /\ e' = e + 1
            /\ epochsRun' = epochsRun + 1
            /\ pc' = "epoch"
            /\ UNCHANGED <<gradients, nGradients, gradFrom>>
    /\ UNCHANGED <<fitArgs, params, presentation_order, i, velocities, predictions,
                   presented, nUpdates, lastUpdated, labelsSeen, paramsGD, scoreVars, callVars>>

\* params = update_params(params, gradients, ...), the end of a pass of the
\* example loop
Fit_Update ==
    /\ pc = "update"
    /\ IF variant = "diva"
       THEN /\ params' = update_params(params, gradients, hps["learning_rate"])
            /\ labelsSeen' = labelsSeen \cup {labels[i + 1]}
            /\ UNCHANGED velocities
       ELSE /\ params' = mlc_update_params(params, gradients, velocities,
                                           hps["learning_rate"], hps["momentum_rate"])[1]
            /\ velocities' = mlc_update_params(params, gradients, velocities,
                                               hps["learning_rate"], hps["momentum_rate"])[2]
            /\ UNCHANGED labelsSeen
    /\ paramsGD' = update_params(paramsGD, gradients, hps["learning_rate"])
    /\ lastUpdated' = params'
    /\ presented' = Append(presented, i)
    /\ nUpdates' = nUpdates + 1
    /\ i' = i + 1
    /\ pc' = "example"
    /\ UNCHANGED <<fitArgs, presentation_order, e, gradients, predictions, nGradients,
                   epochsRun, gradFrom, scoreVars, callVars>>

\* the caller of diva.fit predicts the categories of the training rows
Predict ==
    /\ pc = "done"
    /\ variant = "diva"
    /\ NRows(FitTargets) = NRows(inputs)
    /\ predictions' = predict(params, inputs, Categories, hps, FitTargets)
    /\ pc' = "predicted"
    /\ UNCHANGED <<fitArgs, params, presentation_order, e, i, gradients, velocities,
                   presented, nGradients, nUpdates, epochsRun, gradFrom, lastUpdated,
                   labelsSeen, paramsGD, scoreVars, callVars>>

Next == Fit_Call \/ Fit_Epoch \/ Fit_Example \/ Fit_Update \/ Predict

Spec == Init /\ [][Next]_vars

\* a running program takes its next step
FairSpec == Spec /\ WF_vars(Next)

\* ------------------------------------------------------------ the functions a caller evaluates
\* the functions a caller may evaluate at any time
PureFunctions == {"forward", "loss", "loss_grad", "response", "predict"}

\* the bundles of a caller of these functions: those of fit's callers that
\* are complete, and one whose output activation is the module's softmax
CallHps ==
    IF variant = "diva"
    THEN {h \in DivaHps : "output_activation_deriv" \in DOMAIN h}
         \cup { [learning_rate |-> Dec(5), hidden_activation |-> "relu",
                 hidden_activation_deriv |-> "relu_deriv",
                 output_activation |-> "softmax", output_activation_deriv |-> "linear_deriv"] }
    ELSE {h \in MlcHps : h["momentum_rate"] = 0}
         \cup { [learning_rate |-> Dec(5), momentum_rate |-> 0, hidden_activation |-> "relu",
                 hidden_activation_deriv |-> "relu_deriv",
                 output_activation |-> "softmax", output_activation_deriv |-> "linear_deriv"] }

\* a caller about to evaluate one of the functions: params from a builder, a
\* non-empty prefix of the demo rows, labels, targets that fit the rows
InitCalls ==
    /\ variant \in {"diva", "mlc"}
    /\ \E seed \in Seeds :
          params \in
            IF variant = "diva"
            THEN {build_params(seed, num_features, num_hidden_nodes, Categories, <<-One, One>>),
                  build_params_xavier(seed, num_features, num_hidden_nodes, Categories)}
            ELSE {mlc_build_params(seed, num_features, num_hidden_nodes, Len(Categories),
                                   <<-Dec(30), Dec(30)>>),
                  mlc_build_params_xavier(seed, num_features, num_hidden_nodes, Len(Categories))}
    /\ \E n \in 1..MaxExamples :
          /\ inputs = SubSeq(DemoInputs, 1, n)
          /\ labels \in [1..n -> {"A", "B"}]
          /\ targets \in IF variant = "diva"
                         THEN {NoTargets, Given(DemoTargets(inputs))}
                         ELSE {Given(OneHot(labels))}
    /\ hps \in CallHps
    /\ training_epochs = 0
    /\ randomize_presentation = FALSE
    /\ pc = "idle"
    /\ presentation_order = << >>
    /\ e = 0
    /\ i = 0
    /\ gradients = NoGradients
    /\ velocities = NoVelocities
    /\ predictions = << >>
    /\ params0 = params
    /\ presented = << >>
    /\ nGradients = 0
    /\ nUpdates = 0
    /\ epochsRun = 0
    /\ gradFrom = params
    /\ lastUpdated = params
    /\ labelsSeen = {}
    /\ paramsGD = params
    /\ NoScores
    /\ NoCalls

\* what fn returns on the caller's current arguments; the autoencoder's
\* forward, loss and loss_grad are given the channel of the first label
call_returns(fn) ==
    IF variant = "diva"
    THEN CASE fn = "forward"   -> forward(params, inputs, labels[1], hps)
           [] fn = "loss"      -> << loss(params, inputs, labels[1], hps, FitTargets) >>
           [] fn = "loss_grad" -> loss_grad(params, inputs, labels[1], hps, FitTargets)
           [] fn = "response"  -> response(params, inputs, Categories, hps, FitTargets)
           [] fn = "predict"   -> predict(params, inputs, Categories, hps, FitTargets)
    ELSE CASE fn = "forward"   -> mlc_forward(params, inputs, hps)
           [] fn = "loss"      -> << mlc_loss(params, inputs, FitTargets, hps) >>
           [] fn = "loss_grad" -> mlc_loss_grad(params, inputs, FitTargets, hps)
           [] fn = "response"  -> mlc_response(params, inputs, hps)
           [] fn = "predict"   -> mlc_predict(params, inputs, hps)

\* a response that normalises in place an array it was handed: softmax
\* applied to the caller's inputs
call_leaves_inputs_shifted(fn) ==
    <<params, hps, IF fn = "response" THEN softmax_leaves(inputs) ELSE inputs, targets>>

\* the caller's params, hps, inputs and targets after fn has returned: np.add,
\* np.matmul, np.subtract, np.multiply and the activations allocate their
\* results, "targets = inputs" rebinds a local name, and the one in-place
\* statement (softmax's) writes to an array forward allocated
call_leaves(fn) == <<params, hps, inputs, targets>>

\* the caller calls fn, and then calls it again on the same arguments
Call(fn) ==
    /\ \/ /\ pc = "idle"
          /\ called' = fn
          /\ returned' = call_returns(fn)
          /\ pc' = "called"
          /\ UNCHANGED returned_again
       \/ /\ pc = "called"
          /\ called = fn
          /\ returned_again' = call_returns(fn)
          /\ pc' = "called_twice"
          /\ UNCHANGED <<called, returned>>
    /\ params' = call_leaves(fn)[1]
    /\ hps' = call_leaves(fn)[2]
    /\ inputs' = call_leaves(fn)[3]
    /\ targets' = call_leaves(fn)[4]
    /\ UNCHANGED <<variant, labels, training_epochs, randomize_presentation, params0,
                   presentation_order, e, i, gradients, velocities, predictions, presented,
                   nGradients, nUpdates, epochsRun, gradFrom, lastUpdated, labelsSeen,
                   paramsGD, scoreVars>>

Call_forward == Call("forward")
Call_loss == Call("loss")
Call_loss_grad == Call("loss_grad")
Call_response == Call("response")
Call_predict == Call("predict")

NextCalls == Call_forward \/ Call_loss \/ Call_loss_grad \/ Call_response \/ Call_predict

SpecCalls == InitCalls /\ [][NextCalls]_vars

\* ------------------------------------------------------------ the response rule on its own
\* the most channels, and the largest channel error, the scores are tried on
MaxChannels == 3
MaxChannelError == 3

InitScores ==
    /\ \E n \in 2..MaxChannels : channel_errors \in [1..n -> 0..MaxChannelError]
    /\ stable = << >>
    /\ reciprocal = << >>
    /\ variant = "none"
    /\ params = << >>
    /\ inputs = << >>
    /\ labels = << >>
    /\ targets = NoTargets
    /\ hps = << >>
    /\ training_epochs = 0
    /\ randomize_presentation = FALSE
    /\ pc = "scores"
    /\ presentation_order = << >>
    /\ e = 0
    /\ i = 0
    /\ gradients = NoGradients
    /\ velocities = NoVelocities
    /\ predictions = << >>
    /\ params0 = << >>
    /\ presented = << >>
    /\ nGradients = 0
    /\ nUpdates = 0
    /\ epochsRun = 0
    /\ gradFrom = << >>
    /\ lastUpdated = << >>
    /\ labelsSeen = {}
    /\ paramsGD = << >>
    /\ NoCalls

\* both formulations score the same channel errors
ScoreChannels ==
    /\ pc = "scores"
    /\ stable = << >>
    /\ stable' = stable_scores(channel_errors)
    /\ reciprocal' = reciprocal_scores(channel_errors)
    /\ UNCHANGED <<fitArgs, params, pc, presentation_order, e, i, gradients, velocities,
                   predictions, presented, nGradients, nUpdates, epochsRun, gradFrom,
                   lastUpdated, labelsSeen, paramsGD, channel_errors, callVars>>

NextScores == ScoreChannels

SpecScores == InitScores /\ [][NextScores]_vars

\* ------------------------------------------------------------ properties
Returned == pc \in {"done", "predicted"}
InFit == pc \in {"epoch", "example", "update"}
N == NRows(inputs)

\* C1: with randomize_presentation = True, the examples of an epoch are
\* presented (gradient computed, update applied) in the order of the
\* permutation drawn at the epoch's start: the k-th example presented is
\* presentation_order[k].
C1_PresentedInShuffledOrder ==
    (randomize_presentation /\ (InFit \/ Returned \/ pc = "raised")) =>
        \A k \in 1..Len(presented) : presented[k] = presentation_order[k]

\* the sum-squared error of channel k's reconstruction of input row r
ReconstructionError(k, r) ==
    LET out == forward(params, inputs, Categories[k], hps)[4]
    IN  SumTo([c \in 1..NCols(inputs) |->
                  FMul(FitTargets[r][c] - out[r][c], FitTargets[r][c] - out[r][c])],
              NCols(inputs))

\* channel k reconstructs row r with strictly smaller error than every other
StrictlyBest(k, r) ==
    \A j \in 1..Len(Categories) : j # k => ReconstructionError(k, r) < ReconstructionError(j, r)

\* C2: for the autoencoder at beta = 0, when one channel reconstructs the
\* target of a row with strictly smaller sum-squared error than every other
\* channel, predict returns that channel's index for the row.
C2_PredictReturnsBestChannel ==
    pc = "predicted" =>
        \A r \in 1..N : \A k \in 1..Len(Categories) :
            StrictlyBest(k, r) => predictions[r] = k - 1

\* C3: the momentum optimizer run with momentum_rate = 0 follows the plain
\* gradient-descent optimizer: from the same initial parameters and along the
\* same gradients, the parameters after every step are those the plain
\* update_params produces.
C3_ZeroMomentumIsPlainDescent ==
    (variant = "mlc" /\ hps["momentum_rate"] = 0) => params = paramsGD

C3_Witness ==
    /\ variant = "mlc"
    /\ hps["momentum_rate"] = 0
    /\ nUpdates >= 2
    /\ params # params0
    /\ velocities["hidden"]["output"].bias.a # Full(1, Len(Categories), 0)

\* C4: training is sequential: every gradient is computed from the
\* parameters the latest update produced (the first from the parameters fit
\* was called with), across epoch boundaries as well.
C4_GradientFromLatestUpdate ==
    pc = "update" =>
        /\ gradFrom = lastUpdated
        /\ gradients = example_gradients(lastUpdated)
        /\ nUpdates = 0 => gradFrom = params0

C4_Witness ==
    /\ pc = "update"
    /\ e >= 1
    /\ i = 0
    /\ gradFrom # params0
    /\ gradients # example_gradients(params0)

\* the error tuple of the response rule is scored and all its errors are > 0
PositiveErrorsScored ==
    /\ stable # << >>
    /\ \A k \in 1..Len(channel_errors) : channel_errors[k] > 0

\* C5: for strictly positive channel errors over two or more channels, the
\* stable score 1 - e_k / sum(e) and the reciprocal score (1/e_k) / sum(1/e_j)
\* order the channels alike, and argmin selects the same channel under both.
C5_FormulationsRankAlike ==
    PositiveErrorsScored =>
        /\ \A j, k \in 1..Len(channel_errors) :
              FracLess(stable[j], stable[k]) <=> FracLess(reciprocal[j], reciprocal[k])
        /\ ArgMin(stable) = ArgMin(reciprocal)

C5_Witness ==
    /\ PositiveErrorsScored
    /\ Len(channel_errors) = 3
    /\ channel_errors[1] < channel_errors[2]
    /\ channel_errors[3] < channel_errors[1]
    /\ ArgMin(stable) = 1

\* C6: an autoencoder training step for an example labeled c changes no
\* connection but input->hidden and hidden->c, so a channel that never was a
\* label still holds its initial weights and bias.
C6_UntrainedChannelsUntouched ==
    /\ [][(variant = "diva" /\ pc = "update") =>
            /\ DOMAIN params' = DOMAIN params
            /\ DOMAIN params'["input"] = {"hidden"}
            /\ DOMAIN params'["hidden"] = DOMAIN params["hidden"]
            /\ \A ch \in DOMAIN params["hidden"] \ {labels[i + 1]} :
                  params'["hidden"][ch] = params["hidden"][ch]]_vars
    /\ [](variant = "diva" =>
            \A ch \in DOMAIN params["hidden"] \ labelsSeen :
                params["hidden"][ch] = params0["hidden"][ch])

C6_Witness ==
    /\ variant = "diva"
    /\ pc = "done"
    /\ nUpdates >= 2
    /\ labelsSeen = {"A"}
    /\ params["hidden"]["A"] # params0["hidden"]["A"]
    /\ params["input"]["hidden"] # params0["input"]["hidden"]
    /\ params["hidden"]["B"] = params0["hidden"]["B"]

\* every index 0 .. N-1 occurs exactly once in seq
EachExampleOnce(seq) ==
    /\ Len(seq) = N
    /\ \A x \in 0..(N - 1) : Cardinality({k \in 1..Len(seq) : seq[k] = x}) = 1

\* C7: during fit, params and the velocities change in update_params only,
\* update_params runs once per example per epoch (an epoch processes each of
\* the N examples exactly once), and a run of E epochs that returns has made
\* exactly E * N updates.
C7_OneUpdatePerExamplePerEpoch ==
    /\ [][(params' # params \/ (pc # "call" /\ velocities' # velocities)) =>
            (pc = "update" /\ nUpdates' = nUpdates + 1)]_vars
    /\ [][pc = "update" => (nUpdates' = nUpdates + 1 /\ presented' = Append(presented, i))]_vars
    /\ []((pc = "epoch" /\ e > 0) => EachExampleOnce(presented))
    /\ []((pc = "epoch" \/ Returned) => nUpdates = e * N)
    /\ [](Returned => nUpdates = training_epochs * N)

C7_Witness ==
    /\ Returned
    /\ training_epochs >= 2
    /\ N >= 2
    /\ nUpdates = training_epochs * N
    /\ params # params0

\* C8: fit terminates (it returns or an exception leaves it); when it returns
\* it has run exactly training_epochs epochs, and with training_epochs = 0 or
\* no example it returns the parameters unchanged and has computed no
\* gradient.
C8_FitTerminates ==
    /\ <>(Returned \/ pc = "raised")
    /\ [](Returned =>
            /\ epochsRun = training_epochs
            /\ (training_epochs = 0 \/ N = 0) => (params = params0 /\ nGradients = 0))

C8_Witness ==
    /\ pc = "done"
    /\ epochsRun >= 2
    /\ epochsRun = training_epochs
    /\ nGradients >= 4

\* the k-th (0-based) example is one loss_grad fails on: its label has no
\* channel, it has no target row, or hps lacks a derivative entry
FailingExample(k) ==
    \/ variant = "diva" /\ labels[k + 1] \notin {Categories[j] : j \in 1..Len(Categories)}
    \/ k >= NRows(FitTargets)
    \/ "output_activation_deriv" \notin DOMAIN hps

\* C9: when the gradient computation fails for an example, the run aborts at
\* that example: the failure reaches the caller, the example is not retried
\* and no later example or epoch is processed.
C9_FailureAbortsRun ==
    /\ [][(pc = "example" /\ i < N /\ FailingExample(i)) =>
            (pc' = "raised" /\ params' = params /\ i' = i /\ e' = e
                /\ nGradients' = nGradients /\ nUpdates' = nUpdates)]_vars
    /\ [][pc # "raised"]_vars
    /\ [](pc = "raised" =>
            /\ FailingExample(i)
            /\ \A k \in 0..(i - 1) : ~FailingExample(k)
            /\ e = 0
            /\ nUpdates = i
            /\ nGradients = i)

C9_Witness ==
    /\ pc = "raised"
    /\ i >= 1
    /\ nUpdates >= 1
    /\ params # params0
    /\ training_epochs >= 2

\* np.shape of a velocity: () for the int 0, (rows, cols) for an array
VelocityShape(v) == IF v.ndim = 0 THEN << >> ELSE Shape(v.a)

\* the entry (r, c) of a velocity broadcast to an array
VelocityAt(v, r, c) == IF v.ndim = 0 THEN v.a[1][1] ELSE v.a[r][c]

Tensors == {"weights", "bias"}

\* the velocity store has the layers and connections of params
VelocityStoreCoversParams ==
    /\ DOMAIN velocities = DOMAIN params
    /\ \A layer \in DOMAIN params : DOMAIN velocities[layer] = DOMAIN params[layer]

\* C10 as stated: in the momentum variant the velocity store, from its
\* creation on, has an entry for every connection of params with the same
\* shape as the corresponding parameter tensor.
C10_VelocityShapedLikeParams ==
    (variant = "mlc" /\ pc # "call") =>
        /\ VelocityStoreCoversParams
        /\ \A layer \in DOMAIN params : \A connection \in DOMAIN params[layer] : \A t \in Tensors :
              VelocityShape(velocities[layer][connection][t]) = Shape(params[layer][connection][t])

\* C10, amended: the velocity store has an entry for every connection of
\* params; fit creates it once, every entry the scalar 0, and an entry has
\* the shape of its parameter tensor from the first update on; nothing but
\* update_params changes it, between examples or epochs; and every step sets
\* velocity = learning_rate * grad + momentum_rate * velocity and then
\* param = param - velocity.
C10_VelocityStore ==
    /\ []((variant = "mlc" /\ pc # "call") =>
            /\ VelocityStoreCoversParams
            /\ \A layer \in DOMAIN params : \A connection \in DOMAIN params[layer] : \A t \in Tensors :
                  IF nUpdates = 0
                  THEN velocities[layer][connection][t] = ScalarZero
                  ELSE /\ velocities[layer][connection][t].ndim = 2
                       /\ Shape(velocities[layer][connection][t].a) = Shape(params[layer][connection][t]))
    /\ [][(variant = "mlc" /\ pc \notin {"call", "update"}) => velocities' = velocities]_vars
    /\ [][(variant = "mlc" /\ pc = "update") =>
            \A layer \in DOMAIN params : \A connection \in DOMAIN params[layer] : \A t \in Tensors :
                \A r \in 1..NRows(params[layer][connection][t]) :
                    \A c \in 1..NCols(params[layer][connection][t]) :
                        /\ velocities'[layer][connection][t].a[r][c] =
                              FMul(hps["learning_rate"], gradients[layer][connection][t][r][c])
                              + FMul(hps["momentum_rate"], VelocityAt(velocities[layer][connection][t], r, c))
                        /\ params'[layer][connection][t][r][c] =
                              params[layer][connection][t][r][c]
                              - velocities'[layer][connection][t].a[r][c]]_vars

C10_Witness ==
    /\ variant = "mlc"
    /\ hps["momentum_rate"] # 0
    /\ e >= 1
    /\ nUpdates >= 3
    /\ pc = "example"
    /\ velocities["hidden"]["output"]["bias"].ndim = 2
    /\ velocities["hidden"]["output"]["bias"].a # Full(1, Len(Categories), 0)
    /\ velocities["input"]["hidden"]["weights"].a # Full(num_features, num_hidden_nodes, 0)
    /\ params # paramsGD

\* p has the layers of a parameter store, "input" the single connection
\* "hidden", "hidden" the connections channels; every weight matrix has the
\* source layer's width as its row count, every bias is one row as wide as
\* the destination layer
WellShaped(p, channels, nfeatures, nhidden, nout) ==
    /\ DOMAIN p = {"input", "hidden"}
    /\ DOMAIN p["input"] = {"hidden"}
    /\ DOMAIN p["hidden"] = channels
    /\ DOMAIN p["input"]["hidden"] = Tensors
    /\ Shape(p["input"]["hidden"].weights) = <<nfeatures, nhidden>>
    /\ Shape(p["input"]["hidden"].bias) = <<1, nhidden>>
    /\ \A ch \in channels :
          /\ DOMAIN p["hidden"][ch] = Tensors
          /\ Shape(p["hidden"][ch].weights) = <<nhidden, nout>>
          /\ Shape(p["hidden"][ch].bias) = <<1, nout>>

\* the four builders return well-shaped stores, whatever the generator draws
BuildersShapeParams ==
    \A seed \in Seeds : \A nf \in 1..num_features : \A nh \in 1..num_hidden_nodes :
        /\ \A cats \in {Categories, <<"B">>, <<"A", "B", "A">>} :
              LET channels == {cats[j] : j \in 1..Len(cats)}
              IN  /\ WellShaped(build_params(seed, nf, nh, cats, <<-One, One>>), channels, nf, nh, nf)
                  /\ WellShaped(build_params_xavier(seed, nf, nh, cats), channels, nf, nh, nf)
        /\ \A nclasses \in 1..Len(Categories) :
              /\ WellShaped(mlc_build_params(seed, nf, nh, nclasses, <<-Dec(30), Dec(30)>>),
                            {"output"}, nf, nh, nclasses)
              /\ WellShaped(mlc_build_params_xavier(seed, nf, nh, nclasses),
                            {"output"}, nf, nh, nclasses)

\* C11: the parameter store keeps its structure over building and training:
\* layer "input" has the single connection "hidden", layer "hidden" one
\* connection per channel given to the builder ("output" in the classifier),
\* weights have the source layer's width as row count and biases the
\* destination layer's width; no update adds, removes or reshapes a
\* connection; and every connection of a gradient structure has the shape of
\* its parameter tensor.
C11_StructureKept ==
    /\ BuildersShapeParams
    /\ variant = "diva" =>
          WellShaped(params, {Categories[j] : j \in 1..Len(Categories)},
                     num_features, num_hidden_nodes, num_features)
    /\ variant = "mlc" =>
          WellShaped(params, {"output"}, num_features, num_hidden_nodes, Len(Categories))
    /\ (variant \in {"diva", "mlc"} /\ pc = "update") =>
          /\ DOMAIN gradients = DOMAIN params
          /\ \A layer \in DOMAIN gradients :
                /\ DOMAIN gradients[layer] \subseteq DOMAIN params[layer]
                /\ DOMAIN gradients[layer] # {}
                /\ \A connection \in DOMAIN gradients[layer] : \A t \in Tensors :
                      Shape(gradients[layer][connection][t]) = Shape(params[layer][connection][t])

C11_Witness ==
    /\ variant = "diva"
    /\ pc = "update"
    /\ nUpdates >= 2
    /\ params # params0
    /\ DOMAIN gradients["hidden"] = {"B"}
    /\ "A" \in labelsSeen

OutputPre(hidden_post) ==
    LET connection == IF variant = "diva" THEN labels[1] ELSE "output"
    IN  AddBias(MatMul(hidden_post, params["hidden"][connection].weights),
                params["hidden"][connection].bias)

\* C13: for every output activation, softmax included, the output_pre that
\* forward returns is hidden_post * W + b as computed before the activation
\* was applied: applying the activation does not alter it.
C13_OutputPreUnaltered ==
    (pc \in {"called", "called_twice"} /\ called = "forward") =>
        returned[3] = OutputPre(returned[2])

\* C14: fit works on the caller's parameter structure, so when a run aborts
\* on a failing example the caller's params are those the update of the last
\* successfully processed example left: the earlier updates stay applied (no
\* return to the initial parameters) and the failing step has changed
\* nothing.
C14_AbortKeepsLastUpdate ==
    /\ [][pc' = "raised" => (params' = params /\ velocities' = velocities)]_vars
    /\ [](pc = "raised" =>
            /\ params = lastUpdated
            /\ nUpdates = i
            /\ nUpdates = 0 => params = params0
            /\ variant = "diva" => params = paramsGD)

C14_Witness ==
    /\ pc = "raised"
    /\ variant = "mlc"
    /\ hps["momentum_rate"] # 0
    /\ nUpdates >= 1
    /\ i = nUpdates
    /\ params = lastUpdated
    /\ params # params0
    /\ velocities["input"]["hidden"]["weights"].ndim = 2

====
